---- MODULE Spec2Model ----
(***************************************************************************)
(* A model of the library scanner / entity reconciler and of the recurring *)
(* task scheduler of cinea.                                                *)
(*                                                                         *)
(* Strings of the program are sequences of one-character strings, so that  *)
(* the filename heuristics are computed the way the code computes them.    *)
(***************************************************************************)
EXTENDS Integers, Sequences, FiniteSets, TLC

\* ------------------------------------------------------------------------
\* Characters and strings
\* ------------------------------------------------------------------------

Digit == {"0", "1", "2", "3", "4", "5", "6", "7", "8", "9"}

DigitVal(c) ==
    CASE c = "0" -> 0 [] c = "1" -> 1 [] c = "2" -> 2 [] c = "3" -> 3
      [] c = "4" -> 4 [] c = "5" -> 5 [] c = "6" -> 6 [] c = "7" -> 7
      [] c = "8" -> 8 [] c = "9" -> 9

UpperChars ==
    <<"A", "B", "C", "D", "E", "F", "G", "H", "I", "J", "K", "L", "M",
      "N", "O", "P", "Q", "R", "S", "T", "U", "V", "W", "X", "Y", "Z">>

LowerChars ==
    <<"a", "b", "c", "d", "e", "f", "g", "h", "i", "j", "k", "l", "m",
      "n", "o", "p", "q", "r", "s", "t", "u", "v", "w", "x", "y", "z">>

\* strings.ToLower on one character
ToLowerChar(c) ==
    IF \E i \in 1..26 : UpperChars[i] = c
    THEN LowerChars[CHOOSE i \in 1..26 : UpperChars[i] = c]
    ELSE c

\* strings.ToLower
ToLower(s) == [i \in 1..Len(s) |-> ToLowerChar(s[i])]

\* strings.Contains(s, sub)
Contains(s, sub) ==
    \E i \in 1..(Len(s) - Len(sub) + 1) :
        \A j \in 1..Len(sub) : s[i + j - 1] = sub[j]

\* index of the last occurrence of character c in s, 0 when there is none
LastIndex(s, c) ==
    IF \E i \in 1..Len(s) : s[i] = c
    THEN CHOOSE i \in 1..Len(s) : s[i] = c /\ \A j \in (i+1)..Len(s) : s[j] # c
    ELSE 0

\* filepath.Base for a path naming a file: the element after the last slash
Base(path) == SubSeq(path, LastIndex(path, "/") + 1, Len(path))

\* filepath.Ext: the suffix beginning at the final dot of the final element
Ext(path) ==
    LET b == Base(path)
        d == LastIndex(b, ".")
    IN IF d = 0 THEN <<>> ELSE SubSeq(b, d, Len(b))

\* strings.TrimSuffix(s, suffix) for a suffix s is known to end with
TrimSuffix(s, suffix) == SubSeq(s, 1, Len(s) - Len(suffix))

\* strconv.Atoi on a string of decimal digits
Atoi(s) ==
    LET val[i \in 0..Len(s)] ==
            IF i = 0 THEN 0 ELSE 10 * val[i - 1] + DigitVal(s[i])
    IN val[Len(s)]

\* ------------------------------------------------------------------------
\* Filename heuristics
\* ------------------------------------------------------------------------

VideoExts ==
    { <<".", "m", "p", "4">>, <<".", "m", "k", "v">>, <<".", "a", "v", "i">>,
      <<".", "m", "o", "v">>, <<".", "m", "4", "v">>,
      <<".", "w", "e", "b", "m">>, <<".", "w", "m", "v">>,
      <<".", "f", "l", "v">>, <<".", "t", "s">> }

isVideoFile(path) == ToLower(Ext(path)) \in VideoExts

isLikelyTVFile(path) ==
    LET filename == Base(path)
    IN \/ Contains(filename, <<"S", "0">>)
       \/ Contains(filename, <<"E", "0">>)
       \/ Contains(ToLower(filename), <<"s", "0">>)
       \/ Contains(ToLower(filename), <<"e", "0">>)

\* strings.Fields joined by one space: runs of spaces collapse to the first
\* space of the run, the spaces at both ends are dropped
JoinFields(s) ==
    LET Keep(i) ==
            \/ s[i] # " "
            \/ /\ i > 1
               /\ s[i - 1] # " "
               /\ \E j \in (i+1)..Len(s) : s[j] # " "
        out[i \in 0..Len(s)] ==
            IF i = 0 THEN <<>>
            ELSE IF Keep(i) THEN Append(out[i - 1], s[i]) ELSE out[i - 1]
    IN out[Len(s)]

cleanTitle(title) ==
    LET replaced == [i \in 1..Len(title) |->
                        IF title[i] \in {".", "_"} THEN " " ELSE title[i]]
    IN JoinFields(replaced)

\* the separator class [\. _-]
Seps == {".", " ", "_", "-"}

IsDigits(s, from, len) ==
    /\ from + len - 1 <= Len(s)
    /\ \A i \in from..(from + len - 1) : s[i] \in Digit

\* One way of matching  (?i)^(.+?)[\. _-]+ lead (\d{a}) mid (\d{b})  on s:
\* a title of t characters, k separators, a season digits, b episode digits;
\* lead and mid are a lower-case letter, or "" for none.
DigitsAt(t, k, lead) == t + k + (IF lead = "" THEN 1 ELSE 2)
EpisodeAt(t, k, a, lead, mid) ==
    DigitsAt(t, k, lead) + a + (IF mid = "" THEN 0 ELSE 1)

TVMatches(s, t, k, a, b, lead, mid) ==
    /\ t + k <= Len(s)
    /\ \A i \in (t+1)..(t+k) : s[i] \in Seps
    /\ lead # "" => (t + k + 1 <= Len(s) /\ ToLowerChar(s[t + k + 1]) = lead)
    /\ IsDigits(s, DigitsAt(t, k, lead), a)
    /\ mid # "" => /\ DigitsAt(t, k, lead) + a <= Len(s)
                   /\ ToLowerChar(s[DigitsAt(t, k, lead) + a]) = mid
    /\ IsDigits(s, EpisodeAt(t, k, a, lead, mid), b)

TVCandidates(s, lead, mid, aLens, bLens) ==
    { c \in (1..Len(s)) \X (1..Len(s)) \X aLens \X bLens :
        TVMatches(s, c[1], c[2], c[3], c[4], lead, mid) }

\* leftmost-first preference of the regexp engine: the lazy title as short
\* as possible, then each greedy piece as long as possible
Preferred(c, d) ==
    \/ c[1] < d[1]
    \/ c[1] = d[1] /\ c[2] > d[2]
    \/ c[1] = d[1] /\ c[2] = d[2] /\ c[3] > d[3]
    \/ c[1] = d[1] /\ c[2] = d[2] /\ c[3] = d[3] /\ c[4] >= d[4]

Best(cands) == CHOOSE x \in cands : \A y \in cands : Preferred(x, y)

\* the submatches <<title, season, episode>> of the match c
TVGroups(s, c, lead, mid) ==
    << SubSeq(s, 1, c[1]),
       SubSeq(s, DigitsAt(c[1], c[2], lead),
              DigitsAt(c[1], c[2], lead) + c[3] - 1),
       SubSeq(s, EpisodeAt(c[1], c[2], c[3], lead, mid),
              EpisodeAt(c[1], c[2], c[3], lead, mid) + c[4] - 1) >>

BestGroups(s, cands, lead, mid) ==
    IF cands = {} THEN <<>> ELSE TVGroups(s, Best(cands), lead, mid)

\* FindStringSubmatch: <<>> for no match, else <<title, season, episode>>
TVSubmatch(s, lead, mid, aLens, bLens) ==
    BestGroups(s, TVCandidates(s, lead, mid, aLens, bLens), lead, mid)

\* the last of the matches that is one
LastMatch(nameOnly, m1, m2, m3) ==
    IF m3 # <<>> THEN m3 ELSE IF m2 # <<>> THEN m2 ELSE m1

\* the first of the matches that is one, in the order of the pattern slice
FirstMatch(nameOnly, m1, m2, m3) ==
    IF m1 # <<>> THEN m1 ELSE IF m2 # <<>> THEN m2 ELSE m3

TVShowInfoOf(nameOnly, m) ==
    IF m = <<>>
    THEN [Title |-> cleanTitle(nameOnly), Season |-> 0, Episode |-> 0]
    ELSE [Title |-> cleanTitle(m[1]), Season |-> Atoi(m[2]),
          Episode |-> Atoi(m[3])]

TVShowInfoOfName(nameOnly) ==
    TVShowInfoOf(nameOnly,
                 FirstMatch(nameOnly,
                            TVSubmatch(nameOnly, "s", "e", {1, 2}, {1, 2}),
                            TVSubmatch(nameOnly, "", "x", {1, 2}, {1, 2}),
                            TVSubmatch(nameOnly, "", "", {1}, {2})))

NameOnly(filename) == TrimSuffix(filename, Ext(filename))

extractTVShowInfo(path) == TVShowInfoOfName(NameOnly(Base(path)))

\* strings.TrimSpace, for strings whose only white space is the space
TrimSpace(s) ==
    IF \E i \in 1..Len(s) : s[i] # " "
    THEN SubSeq(s,
                CHOOSE i \in 1..Len(s) :
                    s[i] # " " /\ \A j \in 1..(i-1) : s[j] = " ",
                CHOOSE i \in 1..Len(s) :
                    s[i] # " " /\ \A j \in (i+1)..Len(s) : s[j] = " ")
    ELSE <<>>

\* One way of matching  ^(.*?)(?:\s*\((\d{4})\)|\s*\[(\d{4})\]|\.(\d{4})\.)
\* on s: a title of t characters, then alternative alt after w white spaces
Opening(alt) == IF alt = 1 THEN "(" ELSE IF alt = 2 THEN "[" ELSE "."
Closing(alt) == IF alt = 1 THEN ")" ELSE IF alt = 2 THEN "]" ELSE "."

MovieMatches(s, t, alt, w) ==
    /\ alt = 3 => w = 0
    /\ t + w + 6 <= Len(s)
    /\ \A i \in (t+1)..(t+w) : s[i] = " "
    /\ s[t + w + 1] = Opening(alt)
    /\ IsDigits(s, t + w + 2, 4)
    /\ s[t + w + 6] = Closing(alt)

MovieCandidates(s) ==
    { c \in (0..Len(s)) \X (1..3) \X (0..Len(s)) :
        MovieMatches(s, c[1], c[2], c[3]) }

\* the lazy title as short as possible, then the alternatives in order, then
\* the greedy white space as long as possible
PreferredMovie(c, d) ==
    \/ c[1] < d[1]
    \/ c[1] = d[1] /\ c[2] < d[2]
    \/ c[1] = d[1] /\ c[2] = d[2] /\ c[3] >= d[3]

BestMovie(cands) == CHOOSE x \in cands : \A y \in cands : PreferredMovie(x, y)

MovieGroups(s, c) ==
    [Title |-> TrimSpace(SubSeq(s, 1, c[1])),
     Year  |-> SubSeq(s, c[1] + c[3] + 2, c[1] + c[3] + 5)]

MovieInfoOf(nameOnly, cands) ==
    IF cands = {} THEN [Title |-> nameOnly, Year |-> <<>>]
    ELSE MovieGroups(nameOnly, BestMovie(cands))

MovieInfoOfName(nameOnly) == MovieInfoOf(nameOnly, MovieCandidates(nameOnly))

extractMovieInfo(path) == MovieInfoOfName(NameOnly(Base(path)))

\* ------------------------------------------------------------------------
\* The world the scanner runs in: files, library roots, probe and catalog
\* ------------------------------------------------------------------------

\* Bounds of the model
MaxScans == 2      \* ScanLibraries invocations in one behaviour
MaxFaults == 1     \* storage calls that fail in one behaviour

\* File paths, by file id.  Entity rows keep the id of the path they name.
FilePath ==
    << <<"/", "t", "v">>,
       <<"/", "t", "v", "/", "S", "e", "0", "7", "e", "n", ".", "m", "k", "v">>,
       <<"/", "t", "v", "/", "S", "h", "o", "w", ".", "S", "0", "1", "E", "0",
         "1", ".", "m", "k", "v">>,
       <<"/", "t", "v", "/", "S", "h", "o", "w", "_", "S", "0", "1", "E", "0",
         "1", ".", "m", "k", "v">>,
       <<"/", "t", "v", "/", "n", "o", "t", "e", "s", ".", "t", "x", "t">>,
       <<"/", "m", "v">>,
       <<"/", "m", "v", "/", "H", "e", "a", "t", ".", "m", "k", "v">>,
       <<"/", "t", "v", "2">>,
       <<"/", "t", "v", "2", "/", "i", "n", "f", "o", ".", "n", "f", "o">>,
       <<"/", "o", "l", "d">>,
       <<"/", "o", "l", "d", "/", "U", "p", ".", "m", "k", "v">>,
       <<"/", "k", "i", "d", "s">>,
       <<"/", "k", "i", "d", "s", "/", "B", "o", "l", "t", ".", "m", "k", "v">> >>

FileIds == 1..Len(FilePath)

\* os.FileInfo.IsDir of each path
IsDir == [f \in FileIds |-> f \in {1, 6, 8, 10, 12}]

\* Libraries as ListLibraries returns them; Entries is the order in which
\* filepath.Walk visits the root (the root first, then names in lexical order)
Libraries ==
    << [ID |-> 1, Type |-> "tv", AutoScan |-> TRUE,
        Paths |-> << [Enabled |-> TRUE, Entries |-> <<1, 2, 3, 4, 5>>],
                     [Enabled |-> TRUE, Entries |-> <<8, 9>>] >>],
       [ID |-> 2, Type |-> "movie", AutoScan |-> TRUE,
        Paths |-> << [Enabled |-> TRUE, Entries |-> <<6, 7>>],
                     [Enabled |-> FALSE, Entries |-> <<10, 11>>] >>],
       [ID |-> 3, Type |-> "movie", AutoScan |-> FALSE,
        Paths |-> << [Enabled |-> TRUE, Entries |-> <<12, 13>>] >>] >>

LibIds == 1..Len(Libraries)

\* the heuristics of each file, computed once
VideoFile == [f \in FileIds |-> isVideoFile(FilePath[f])]
LikelyTV == [f \in FileIds |-> isLikelyTVFile(FilePath[f])]
TVInfo == [f \in FileIds |-> extractTVShowInfo(FilePath[f])]
MovieInfo == [f \in FileIds |-> extractMovieInfo(FilePath[f])]

Nil == [nil |-> TRUE]

\* what Extract can return: a metadata record, or nil with an error
ProbeResults == { [Codec |-> "h264"], Nil }

\* result[0] of a catalog search, Nil for an error or an empty result list
CatalogShows ==
    { [ID |-> 1, Name |-> <<"S", "h", "o", "w">>],
      [ID |-> 5, Name |-> <<"S", "h", "o", "w", " ", "U", "S">>] }
CatalogMovies ==
    { [ID |-> 7, Title |-> <<"H", "e", "a", "t">>, Overview |-> "heist"],
      [ID |-> 9, Title |-> <<"H", "e", "a", "t", " ", "2">>,
       Overview |-> "sequel"] }

\* what SearchMovie can return: nil with an error, or a result list
MovieSearches ==
    { [err |-> TRUE, Results |-> <<>>] } \cup
    { [err |-> FALSE, Results |-> r] :
        r \in { <<>> } \cup { <<m>> : m \in {c \in CatalogMovies : c.ID = 7} }
                \cup { <<m, n>> : m \in {c \in CatalogMovies : c.ID = 9},
                                  n \in {c \in CatalogMovies : c.ID = 7} } }

\* no search made yet
NoSearch == [err |-> FALSE, Results |-> <<>>]

\* tmdbMovie: &searchResult.Results[0] when there are results, else nil
FirstResult(search) ==
    IF Len(search.Results) > 0 THEN search.Results[1] ELSE Nil

Scanners == {1, 2}

VARIABLES
    movies,      \* table of Movie rows, indexed by primary key
    series,      \* table of Series rows
    seasons,     \* table of Season rows
    episodes,    \* table of Episode rows
    libScanned,  \* LastScanned of each persisted Library row
    now,         \* the clock
    scans,       \* ScanLibraries invocations so far
    faults,      \* storage calls that have failed so far
    sc,          \* per scanner execution: position and local variables
    calls,       \* history: the <<"probe" | "catalog", file>> calls made
    okScans      \* history: ScanLibraries invocations that returned nil

storeVars == <<movies, series, seasons, episodes>>

IdleScanner ==
    [pc |-> "idle", li |-> 0, pi |-> 0, fi |-> 0, file |-> 0,
     existing |-> Nil, fileMeta |-> Nil, tmdb |-> Nil,
     series |-> Nil, season |-> Nil, search |-> NoSearch,
     log |-> <<>>, began |-> 0, updated |-> FALSE, result |-> "none"]

ScanInit ==
    /\ movies = <<>>
    /\ series = <<>>
    /\ seasons = <<>>
    /\ episodes = <<>>
    /\ libScanned = [l \in LibIds |-> 0]
    /\ scans = 0
    /\ sc = [s \in Scanners |-> IdleScanner]
    /\ calls = {}
    /\ okScans = 0

\* a storage call either succeeds or, while the fault budget lasts, fails
Outcomes == IF faults < MaxFaults THEN {"ok", "fail"} ELSE {"ok"}
Charge(o) == faults' = IF o = "fail" THEN faults + 1 ELSE faults

\* gorm First over the rows whose primary keys are in ids: the row with the
\* lowest primary key, Nil if there is none
FirstRow(table, ids) ==
    IF ids = {} THEN Nil
    ELSE table[CHOOSE i \in ids : \A j \in ids : i <= j]

\* a lookup by path that never finds the row
FindByPathNever(table, path) == Nil

\* Where("file_path = ?", path).First
FindByPath(table, path) ==
    FirstRow(table, {i \in 1..Len(table) : table[i].FilePath = path})

\* First(&row, id)
FindByID(table, id) ==
    FirstRow(table, {i \in 1..Len(table) : table[i].ID = id})

\* movieRepository.FindByID: the entity and the error it returns; failed
\* tells whether the query itself fails
MovieFindByID(table, id, failed) ==
    IF id = 0 THEN [entity |-> Nil, err |-> "bad request"]
    ELSE IF failed THEN [entity |-> Nil, err |-> "database"]
    ELSE IF FindByID(table, id) = Nil
         THEN [entity |-> Nil, err |-> "not found"]
         ELSE [entity |-> FindByID(table, id), err |-> "nil"]

\* a season lookup that never finds the row
FindSeasonByNumberNever(table, showID, seasonNumber) == Nil

\* Where("series_id = ? AND season_number = ?", showID, seasonNumber).First
FindSeasonByNumber(table, showID, seasonNumber) ==
    FirstRow(table, {i \in 1..Len(table) :
                        /\ table[i].SeriesID = showID
                        /\ table[i].SeasonNumber = seasonNumber})

\* gorm Create: the row gets the next primary key
Created(table, row) == Append(table, [row EXCEPT !.ID = Len(table) + 1])

\* a save that inserts the row as a new one
SavedByCreate(table, row) == Append(table, [row EXCEPT !.ID = Len(table) + 1])

\* gorm Save of a row read from the table: every column is rewritten
Saved(table, row) == [table EXCEPT ![row.ID] = row]

CurLib(l) == Libraries[l.li]
CurPath(l) == CurLib(l).Paths[l.pi]

\* a return of processFile whose error ends the scan of the library
FileReturnsEndsLibrary(l, err) ==
    [l EXCEPT !.pc = IF err THEN "lib" ELSE "walk",
              !.li = IF err THEN @ + 1 ELSE @,
              !.fi = IF err THEN @ ELSE @ + 1,
              !.log = Append(@, [file |-> l.file, err |-> err]),
              !.existing = Nil, !.fileMeta = Nil, !.tmdb = Nil,
              !.series = Nil, !.season = Nil, !.search = NoSearch]

\* processFile returns to the walk callback: an error ends the walk of this
\* path (filepath.Walk stops at the first error of its callback), nil moves
\* to the next entry
FileReturns(l, err) ==
    [l EXCEPT !.pc = IF err THEN "path" ELSE "walk",
              !.pi = IF err THEN @ + 1 ELSE @,
              !.fi = IF err THEN @ ELSE @ + 1,
              !.log = Append(@, [file |-> l.file, err |-> err]),
              !.existing = Nil, !.fileMeta = Nil, !.tmdb = Nil,
              !.series = Nil, !.season = Nil, !.search = NoSearch]

\* ------------------------------------------------------------------------
\* Scanner: ScanLibraries, ScanLibrary, scanPath, processFile
\* ------------------------------------------------------------------------

\* ScanLibraries is entered and lists the libraries
StartScan(s) ==
    /\ sc[s].pc \in {"idle", "done", "panicked"}
    /\ scans < MaxScans
    /\ scans' = scans + 1
    /\ now' = now + 1
    /\ \E o \in Outcomes :
         /\ Charge(o)
         /\ sc' = [sc EXCEPT ![s] =
                IF o = "fail"
                THEN [IdleScanner EXCEPT !.pc = "done", !.result = "error"]
                ELSE [IdleScanner EXCEPT !.pc = "lib", !.li = 1]]
    /\ UNCHANGED <<storeVars, libScanned,
                 calls, okScans>>

\* the loop of ScanLibraries without the auto-scan check
NextLibraryNoSkip(s) ==
    LET l == sc[s] IN
    /\ l.pc = "lib"
    /\ sc' = [sc EXCEPT ![s] =
           IF l.li > Len(Libraries)
           THEN [l EXCEPT !.pc = "done", !.result = "nil"]
           ELSE [l EXCEPT !.pc = "path", !.pi = 1, !.log = <<>>,
                          !.began = l.li, !.updated = FALSE]]
    /\ okScans' = IF l.li > Len(Libraries) THEN okScans + 1 ELSE okScans
    /\ UNCHANGED <<storeVars, libScanned, now, scans, faults, calls>>

\* the loop of ScanLibraries: skip a library without auto-scan, enter
\* ScanLibrary for the others, return nil after the last
NextLibrary(s) ==
    LET l == sc[s] IN
    /\ l.pc = "lib"
    /\ sc' = [sc EXCEPT ![s] =
           IF l.li > Len(Libraries)
           THEN [l EXCEPT !.pc = "done", !.result = "nil"]
           ELSE IF ~CurLib(l).AutoScan
           THEN [l EXCEPT !.li = @ + 1]
           ELSE [l EXCEPT !.pc = "path", !.pi = 1, !.log = <<>>,
                          !.began = l.li, !.updated = FALSE]]
    /\ okScans' = IF l.li > Len(Libraries) THEN okScans + 1 ELSE okScans
    /\ UNCHANGED <<storeVars, libScanned, now, scans, faults,
                 calls>>

\* the loop of ScanLibrary: skip a disabled path, walk the others, and after
\* the last stamp the library and save it
NextPath(s) ==
    LET l == sc[s] IN
    /\ l.pc = "path"
    /\ IF l.pi > Len(CurLib(l).Paths)
       THEN \E o \in Outcomes :
              /\ Charge(o)
              /\ libScanned' = IF o = "ok"
                               THEN [libScanned EXCEPT ![CurLib(l).ID] = now]
                               ELSE libScanned
              /\ sc' = [sc EXCEPT ![s] =
                     [l EXCEPT !.pc = "lib", !.li = @ + 1,
                               !.updated = (o = "ok")]]
       ELSE /\ sc' = [sc EXCEPT ![s] =
                   IF ~CurPath(l).Enabled
                   THEN [l EXCEPT !.pi = @ + 1]
                   ELSE [l EXCEPT !.pc = "walk", !.fi = 1]]
            /\ UNCHANGED <<libScanned, faults>>
    /\ UNCHANGED <<storeVars, now, scans,
                 calls, okScans>>

\* one call of the walk callback of scanPath, and the dispatch of processFile
WalkEntry(s) ==
    LET l == sc[s] IN
    /\ l.pc = "walk"
    /\ IF l.fi > Len(CurPath(l).Entries)
       THEN /\ sc' = [sc EXCEPT ![s] = [l EXCEPT !.pc = "path", !.pi = @ + 1]]
            /\ UNCHANGED faults
       ELSE LET f == CurPath(l).Entries[l.fi] IN
            \E o \in Outcomes :
              /\ Charge(o)
              /\ sc' = [sc EXCEPT ![s] =
                     IF o = "fail"
                     THEN [l EXCEPT !.pc = "path", !.pi = @ + 1]
                     ELSE IF IsDir[f] \/ ~VideoFile[f]
                     THEN [l EXCEPT !.fi = @ + 1]
                     ELSE [l EXCEPT !.file = f,
                                    !.pc = IF LikelyTV[f] THEN "tv_parse"
                                           ELSE "mv_find"]]
    /\ UNCHANGED <<storeVars, libScanned, now, scans,
                 calls, okScans>>

\* ------------------------------------------------------------------------
\* Reconciler: processMovieFile
\* ------------------------------------------------------------------------

\* 1. look the movie up by path
MovieFindByPath(s) ==
    LET l == sc[s]
        found == FindByPath(movies, l.file)
    IN
    /\ l.pc = "mv_find"
    /\ \E o \in Outcomes :
         /\ Charge(o)
         /\ sc' = [sc EXCEPT ![s] =
                IF o = "fail" THEN FileReturns(l, TRUE)
                ELSE IF found # Nil
                THEN [l EXCEPT !.pc = "mv_touch", !.existing = found]
                ELSE [l EXCEPT !.pc = "mv_probe"]]
    /\ UNCHANGED <<storeVars, libScanned, now, scans,
                 calls, okScans>>

\* the movie exists: stamp LastScanned and save it
MovieTouch(s) ==
    LET l == sc[s] IN
    /\ l.pc = "mv_touch"
    /\ \E o \in Outcomes :
         /\ Charge(o)
         /\ movies' = IF o = "ok"
                      THEN Saved(movies, [l.existing EXCEPT !.LastScanned = now])
                      ELSE movies
         /\ sc' = [sc EXCEPT ![s] = FileReturns(l, o = "fail")]
    /\ UNCHANGED <<series, seasons, episodes, libScanned, now, scans,
                 calls, okScans>>

\* 2. Extract: the metadata, or nil when the probe failed (only logged)
MovieProbe(s) ==
    LET l == sc[s] IN
    /\ l.pc = "mv_probe"
    /\ \E r \in ProbeResults :
         sc' = [sc EXCEPT ![s] = [l EXCEPT !.pc = "mv_search", !.fileMeta = r]]
    /\ calls' = calls \cup {<<"probe", l.file>>}
    /\ UNCHANGED <<storeVars, libScanned, now, scans, faults,
                 okScans>>

\* 3, 4. search the catalog with the title of the filename; keep result[0]
MovieSearch(s) ==
    LET l == sc[s] IN
    /\ l.pc = "mv_search"
    /\ \E r \in MovieSearches :
         sc' = [sc EXCEPT ![s] = [l EXCEPT !.pc = "mv_store", !.search = r,
                                           !.tmdb = FirstResult(r)]]
    /\ calls' = calls \cup {<<"catalog", l.file>>}
    /\ UNCHANGED <<storeVars, libScanned, now, scans, faults,
                 okScans>>

\* 5. build the movie (dereferencing fileMeta) and store it
MovieStore(s) ==
    LET l == sc[s]
        movie == [ID |-> 0, LibraryID |-> CurLib(l).ID, DateAdded |-> now,
                  FilePath |-> l.file,
                  Codec |-> IF l.fileMeta = Nil THEN "" ELSE l.fileMeta.Codec,
                  LastScanned |-> now,
                  Title |-> IF l.tmdb # Nil THEN l.tmdb.Title
                            ELSE MovieInfo[l.file].Title,
                  TMDbID |-> IF l.tmdb # Nil THEN l.tmdb.ID ELSE 0,
                  Overview |-> IF l.tmdb # Nil THEN l.tmdb.Overview ELSE ""]
    IN
    /\ l.pc = "mv_store"
    /\ IF l.fileMeta = Nil
       THEN /\ sc' = [sc EXCEPT ![s] =
                   [l EXCEPT !.pc = "panicked", !.result = "panic"]]
            /\ UNCHANGED <<movies, faults>>
       ELSE \E o \in Outcomes :
              /\ Charge(o)
              /\ movies' = IF o = "ok" THEN Created(movies, movie) ELSE movies
              /\ sc' = [sc EXCEPT ![s] = FileReturns(l, o = "fail")]
    /\ UNCHANGED <<series, seasons, episodes, libScanned, now, scans,
                 calls, okScans>>

\* ------------------------------------------------------------------------
\* Reconciler: processSeriesFile
\* ------------------------------------------------------------------------

\* the parse step without the zero check
SeriesParseNoSkip(s) ==
    /\ sc[s].pc = "tv_parse"
    /\ sc' = [sc EXCEPT ![s] = [sc[s] EXCEPT !.pc = "tv_find"]]
    /\ UNCHANGED <<storeVars, libScanned, now, scans, faults, calls, okScans>>

\* 1. parse the filename; a zero season or episode ends the file with nil
SeriesParse(s) ==
    LET l == sc[s] IN
    /\ l.pc = "tv_parse"
    /\ sc' = [sc EXCEPT ![s] =
           IF TVInfo[l.file].Season = 0 \/ TVInfo[l.file].Episode = 0
           THEN FileReturns(l, FALSE)
           ELSE [l EXCEPT !.pc = "tv_find"]]
    /\ UNCHANGED <<storeVars, libScanned, now, scans, faults,
                 calls, okScans>>

\* 2. look the episode up by path
EpisodeFindByPath(s) ==
    LET l == sc[s]
        found == FindByPath(episodes, l.file)
    IN
    /\ l.pc = "tv_find"
    /\ \E o \in Outcomes :
         /\ Charge(o)
         /\ sc' = [sc EXCEPT ![s] =
                IF o = "fail" THEN FileReturns(l, TRUE)
                ELSE IF found # Nil
                THEN [l EXCEPT !.pc = "tv_touch", !.existing = found]
                ELSE [l EXCEPT !.pc = "tv_probe"]]
    /\ UNCHANGED <<storeVars, libScanned, now, scans,
                 calls, okScans>>

\* the episode exists: stamp LastScanned and save it
EpisodeTouch(s) ==
    LET l == sc[s] IN
    /\ l.pc = "tv_touch"
    /\ \E o \in Outcomes :
         /\ Charge(o)
         /\ episodes' = IF o = "ok"
                        THEN Saved(episodes,
                                   [l.existing EXCEPT !.LastScanned = now])
                        ELSE episodes
         /\ sc' = [sc EXCEPT ![s] = FileReturns(l, o = "fail")]
    /\ UNCHANGED <<movies, series, seasons, libScanned, now, scans,
                 calls, okScans>>

\* 3. Extract: the metadata, or nil when the probe failed (only logged)
SeriesProbe(s) ==
    LET l == sc[s] IN
    /\ l.pc = "tv_probe"
    /\ \E r \in ProbeResults :
         sc' = [sc EXCEPT ![s] = [l EXCEPT !.pc = "tv_search", !.fileMeta = r]]
    /\ calls' = calls \cup {<<"probe", l.file>>}
    /\ UNCHANGED <<storeVars, libScanned, now, scans, faults,
                 okScans>>

\* 4. search the catalog for the show; keep result[0]
SeriesSearch(s) ==
    LET l == sc[s] IN
    /\ l.pc = "tv_search"
    /\ \E r \in CatalogShows \cup {Nil} :
         sc' = [sc EXCEPT ![s] =
                [l EXCEPT !.tmdb = r,
                          !.pc = IF r # Nil THEN "tv_series_find"
                                 ELSE "tv_series_store"]]
    /\ calls' = calls \cup {<<"catalog", l.file>>}
    /\ UNCHANGED <<storeVars, libScanned, now, scans, faults,
                 okScans>>

\* 5.1 with a catalog match: seriesRepo.FindByID(tmdbShow.ID), a lookup by
\* primary key
SeriesFindByID(s) ==
    LET l == sc[s]
        found == FindByID(series, l.tmdb.ID)
    IN
    /\ l.pc = "tv_series_find"
    /\ \E o \in Outcomes :
         /\ Charge(o)
         /\ sc' = [sc EXCEPT ![s] =
                IF o = "fail" THEN FileReturns(l, TRUE)
                ELSE IF found # Nil
                THEN [l EXCEPT !.pc = "tv_series_update", !.series = found]
                ELSE [l EXCEPT !.pc = "tv_series_store"]]
    /\ UNCHANGED <<storeVars, libScanned, now, scans,
                 calls, okScans>>

\* 5.1 no series found: create one from the catalog fields or the filename
SeriesStore(s) ==
    LET l == sc[s]
        row == [ID |-> 0, LibraryID |-> CurLib(l).ID, DateAdded |-> now,
                Title |-> IF l.tmdb # Nil THEN l.tmdb.Name
                          ELSE TVInfo[l.file].Title,
                TMDbID |-> IF l.tmdb # Nil THEN l.tmdb.ID ELSE 0,
                LastScanned |-> now]
    IN
    /\ l.pc = "tv_series_store"
    /\ \E o \in Outcomes :
         /\ Charge(o)
         /\ series' = IF o = "ok" THEN Created(series, row) ELSE series
         /\ sc' = [sc EXCEPT ![s] =
                IF o = "fail" THEN FileReturns(l, TRUE)
                ELSE [l EXCEPT !.pc = "tv_season_find",
                               !.series = [row EXCEPT !.ID = Len(series) + 1]]]
    /\ UNCHANGED <<movies, seasons, episodes, libScanned, now, scans,
                 calls, okScans>>

\* 5.1 series found: stamp and save it; the error of Update is dropped
SeriesUpdate(s) ==
    LET l == sc[s]
        row == [l.series EXCEPT !.LastScanned = now]
    IN
    /\ l.pc = "tv_series_update"
    /\ \E o \in Outcomes :
         /\ Charge(o)
         /\ series' = IF o = "ok" THEN Saved(series, row) ELSE series
         /\ sc' = [sc EXCEPT ![s] =
                [l EXCEPT !.pc = "tv_season_find", !.series = row]]
    /\ UNCHANGED <<movies, seasons, episodes, libScanned, now, scans,
                 calls, okScans>>

\* 5.2 look the season up by (series id, season number)
SeasonFindByNumber(s) ==
    LET l == sc[s]
        found == FindSeasonByNumber(seasons, l.series.ID,
                                    TVInfo[l.file].Season)
    IN
    /\ l.pc = "tv_season_find"
    /\ \E o \in Outcomes :
         /\ Charge(o)
         /\ sc' = [sc EXCEPT ![s] =
                IF o = "fail" THEN FileReturns(l, TRUE)
                ELSE IF found # Nil
                THEN [l EXCEPT !.pc = "tv_season_update", !.season = found]
                ELSE [l EXCEPT !.pc = "tv_season_store"]]
    /\ UNCHANGED <<storeVars, libScanned, now, scans,
                 calls, okScans>>

\* the season stored under the catalog id of the show instead of the primary
\* key of the series row
SeasonStoreUnderCatalogID(s) ==
    LET l == sc[s]
        row == [ID |-> 0,
                SeriesID |-> IF l.tmdb # Nil THEN l.tmdb.ID ELSE l.series.ID,
                SeasonNumber |-> TVInfo[l.file].Season,
                LibraryID |-> CurLib(l).ID, DateAdded |-> now,
                LastScanned |-> 0]
    IN
    /\ l.pc = "tv_season_store"
    /\ seasons' = Created(seasons, row)
    /\ sc' = [sc EXCEPT ![s] =
           [l EXCEPT !.pc = "tv_episode",
                     !.season = [row EXCEPT !.ID = Len(seasons) + 1]]]
    /\ UNCHANGED <<movies, series, episodes, libScanned, now, scans, faults,
                   calls, okScans>>

\* 5.2 no season found: create it (LastScanned is left at its zero value)
SeasonStore(s) ==
    LET l == sc[s]
        row == [ID |-> 0, SeriesID |-> l.series.ID,
                SeasonNumber |-> TVInfo[l.file].Season,
                LibraryID |-> CurLib(l).ID, DateAdded |-> now,
                LastScanned |-> 0]
    IN
    /\ l.pc = "tv_season_store"
    /\ \E o \in Outcomes :
         /\ Charge(o)
         /\ seasons' = IF o = "ok" THEN Created(seasons, row) ELSE seasons
         /\ sc' = [sc EXCEPT ![s] =
                IF o = "fail" THEN FileReturns(l, TRUE)
                ELSE [l EXCEPT !.pc = "tv_episode",
                               !.season = [row EXCEPT !.ID = Len(seasons) + 1]]]
    /\ UNCHANGED <<movies, series, episodes, libScanned, now, scans,
                 calls, okScans>>

\* 5.2 season found: stamp and save it; the error of UpdateSeason is dropped
SeasonUpdate(s) ==
    LET l == sc[s]
        row == [l.season EXCEPT !.LastScanned = now]
    IN
    /\ l.pc = "tv_season_update"
    /\ \E o \in Outcomes :
         /\ Charge(o)
         /\ seasons' = IF o = "ok" THEN Saved(seasons, row) ELSE seasons
         /\ sc' = [sc EXCEPT ![s] =
                [l EXCEPT !.pc = "tv_episode", !.season = row]]
    /\ UNCHANGED <<movies, series, episodes, libScanned, now, scans,
                 calls, okScans>>

\* 5.3 build the episode (dereferencing fileMeta) and add it
EpisodeAdd(s) ==
    LET l == sc[s]
        row == [ID |-> 0, LibraryID |-> CurLib(l).ID, DateAdded |-> now,
                FilePath |-> l.file,
                Codec |-> IF l.fileMeta = Nil THEN "" ELSE l.fileMeta.Codec,
                SeriesID |-> l.series.ID, SeasonID |-> l.season.ID,
                EpisodeNumber |-> TVInfo[l.file].Episode,
                Title |-> <<"Episode", TVInfo[l.file].Episode>>,
                LastScanned |-> now]
    IN
    /\ l.pc = "tv_episode"
    /\ IF l.fileMeta = Nil
       THEN /\ sc' = [sc EXCEPT ![s] =
                   [l EXCEPT !.pc = "panicked", !.result = "panic"]]
            /\ UNCHANGED <<episodes, faults>>
       ELSE \E o \in Outcomes :
              /\ Charge(o)
              /\ episodes' = IF o = "ok" THEN Created(episodes, row)
                             ELSE episodes
              /\ sc' = [sc EXCEPT ![s] = FileReturns(l, o = "fail")]
    /\ UNCHANGED <<movies, series, seasons, libScanned, now, scans,
                 calls, okScans>>

\* ------------------------------------------------------------------------
\* Scheduler: the persisted tasks, LoadTasks and the firings of a task
\* ------------------------------------------------------------------------

\* Bounds of the model
MaxTime == 2       \* the clock stops here
MaxFirings == 2    \* firings of all tasks in one behaviour

TaskIds == {1, 2}

\* the task types main registers an executor for, in its order
RegisteredTypes == <<"scanner", "cleanup">>

\* the values a persisted task row is drawn from
TaskTypes == {"scanner", "backup"}
TaskIntervals == {"1s", "soon"}

\* time.ParseDuration on the interval strings of the model, in clock ticks
ParseDuration(str) ==
    IF str = "1s" THEN [ok |-> TRUE, d |-> 1]
    ELSE IF str = "2s" THEN [ok |-> TRUE, d |-> 2]
    ELSE [ok |-> FALSE, d |-> 0]

VARIABLES
    mainPc,      \* position of main: register1, register2, load, start, run,
                 \* stopped
    executors,   \* scheduler.tasks: the registered task types
    taskRow,     \* the persisted ScheduledTask rows, by id
    memTask,     \* the task objects LoadTasks read, shared by all firings of
                 \* a task (Nil before LoadTasks)
    scheduled,   \* the tasks with a job in the quartz scheduler
    nextFire,    \* the next fire time of the trigger of each job
    runs,        \* the firings so far, in the order they fired
    loadErr      \* the error LoadTasks returned: "none" (not called), "nil",
                 \* "error"

schedVars ==
    <<mainPc, executors, taskRow, memTask, scheduled, nextFire, runs, loadErr>>

\* the scheduler before main touches it, with given task rows
SchedInitWith(rows) ==
    /\ mainPc = "register1"
    /\ executors = {}
    /\ taskRow = rows
    /\ memTask = [t \in TaskIds |-> Nil]
    /\ scheduled = {}
    /\ nextFire = [t \in TaskIds |-> 0]
    /\ runs = <<>>
    /\ loadErr = "none"

TaskRows ==
    [TaskIds -> [Enabled : BOOLEAN, Type : TaskTypes, Interval : TaskIntervals,
                 LastRun : {0}, NextRun : {0}, Status : {"idle"}]]

\* RegisterTask, as main calls it for the scanner and then the cleanup
RegisterTask ==
    /\ mainPc \in {"register1", "register2"}
    /\ executors' = executors \cup
           {RegisteredTypes[IF mainPc = "register1" THEN 1 ELSE 2]}
    /\ mainPc' = IF mainPc = "register1" THEN "register2" ELSE "load"
    /\ UNCHANGED <<taskRow, memTask, scheduled, nextFire, runs, loadErr,
                   now, faults>>

\* scheduleTask: nil when the interval parses (the job is then handed to
\* ScheduleJob), an error otherwise
ScheduleTaskOk(task) == ParseDuration(task.Interval).ok

LoadLoopAborting(rows) ==
    LET sched[n \in 0..Cardinality(TaskIds)] ==
            IF n = 0 THEN {}
            ELSE IF ~rows[n].Enabled THEN sched[n - 1]
            ELSE IF rows[n].Type \notin executors THEN {}
            ELSE IF ~ScheduleTaskOk(rows[n]) THEN {}
            ELSE sched[n - 1] \cup {n}
    IN sched[Cardinality(TaskIds)]

\* the loop of LoadTasks over the listed tasks, in order: the tasks scheduled
\* after the first n
LoadLoop(rows) ==
    LET sched[n \in 0..Cardinality(TaskIds)] ==
            IF n = 0 THEN {}
            ELSE IF ~rows[n].Enabled THEN sched[n - 1]
            ELSE IF rows[n].Type \notin executors THEN sched[n - 1]
            ELSE IF ~ScheduleTaskOk(rows[n]) THEN sched[n - 1]
            ELSE sched[n - 1] \cup {n}
    IN sched[Cardinality(TaskIds)]

\* LoadTasks: list the persisted tasks and schedule them
LoadTasks ==
    /\ mainPc = "load"
    /\ \E o \in Outcomes :
         /\ Charge(o)
         /\ IF o = "fail"
            THEN /\ loadErr' = "error"
                 /\ mainPc' = "stopped"
                 /\ UNCHANGED <<memTask, scheduled, nextFire>>
            ELSE /\ loadErr' = "nil"
                 /\ mainPc' = "start"
                 /\ memTask' = taskRow
                 /\ scheduled' = LoadLoop(taskRow)
                 /\ nextFire' = [t \in TaskIds |->
                        IF t \in LoadLoop(taskRow)
                        THEN now + ParseDuration(taskRow[t].Interval).d
                        ELSE 0]
    /\ UNCHANGED <<executors, taskRow, runs, now>>

\* Start
Start ==
    /\ mainPc = "start"
    /\ mainPc' = "run"
    /\ UNCHANGED <<executors, taskRow, memTask, scheduled, nextFire, runs,
                   loadErr, now, faults>>

\* Shutdown: the quartz scheduler is stopped, no job fires any more
Shutdown ==
    /\ mainPc = "run"
    /\ mainPc' = "stopped"
    /\ UNCHANGED <<executors, taskRow, memTask, scheduled, nextFire, runs,
                   loadErr, now, faults>>

\* a job is due
Due(t) == mainPc = "run" /\ t \in scheduled /\ now >= nextFire[t]

\* the clock advances; the timer of the quartz scheduler fires the due jobs
\* first
Tick ==
    /\ mainPc \in {"run", "stopped"}
    /\ now < MaxTime
    /\ \A t \in TaskIds : ~(Due(t) /\ Len(runs) < MaxFirings)
    /\ now' = now + 1
    /\ UNCHANGED <<schedVars, faults>>

\* a firing of task t before taskWrapper.Execute has done anything; a firing
\* ends "done" (Execute returned nil) or "failed" (it returned an error);
\* afterFailure: the tasks a firing of which had failed when this one fired
NewRun(t) ==
    [task |-> t, pc |-> "mark", err |-> FALSE, invokedWith |-> "none",
     completedAt |-> 0, saved |-> FALSE,
     afterFailure |-> {runs[i].task : i \in {j \in 1..Len(runs) :
                                                 runs[j].pc = "failed"}}]

\* The trigger of task t fires.  The quartz scheduler of NewStdScheduler()
\* (no blocking-execution option) computes the next fire time and then runs
\* the job in a goroutine of its own, whether or not an earlier firing of the
\* job has returned.
Fire(t) ==
    /\ Due(t)
    /\ Len(runs) < MaxFirings
    /\ nextFire' = [nextFire EXCEPT
                      ![t] = @ + ParseDuration(memTask[t].Interval).d]
    /\ runs' = Append(runs, NewRun(t))
    /\ UNCHANGED <<mainPc, executors, taskRow, memTask, scheduled, loadErr,
                   now, faults>>

\* gorm Save of a task object: every column of its row is written
UpdateTask(rows, t, task) == [rows EXCEPT ![t] = task]

\* taskWrapper.Execute of the firing r, in the steps between which another
\* goroutine can touch the task object or its row

\* w.task.Status = StatusRunning; w.task.LastRun = time.Now()
RunMark(r) ==
    /\ runs[r].pc = "mark"
    /\ memTask' = [memTask EXCEPT ![runs[r].task] =
                      [@ EXCEPT !.Status = "running", !.LastRun = now]]
    /\ runs' = [runs EXCEPT ![r].pc = "persist"]
    /\ UNCHANGED <<mainPc, executors, taskRow, scheduled, nextFire, loadErr,
                   now, faults>>

\* the first UpdateTask: its error ends the firing before the executor is
\* called, otherwise w.executor.Execute is called
RunPersistRunning(r) ==
    /\ runs[r].pc = "persist"
    /\ \E o \in Outcomes :
         /\ Charge(o)
         /\ IF o = "ok"
            THEN /\ taskRow' = UpdateTask(taskRow, runs[r].task,
                                          memTask[runs[r].task])
                 /\ runs' = [runs EXCEPT
                        ![r].pc = "executing",
                        ![r].invokedWith = memTask[runs[r].task].Status]
            ELSE /\ runs' = [runs EXCEPT ![r].pc = "failed"]
                 /\ UNCHANGED taskRow
    /\ UNCHANGED <<mainPc, executors, memTask, scheduled, nextFire, loadErr,
                   now>>

\* the status after the executor returned err
StatusOf(err) == IF err THEN "failed" ELSE "idle"

\* the executor returns, with or without an error: w.task.Status is set from
\* it, the interval is parsed again and w.task.NextRun =
\* time.Now().Add(interval)
RunReturn(r) ==
    /\ runs[r].pc = "executing"
    /\ \E e \in BOOLEAN :
         IF ParseDuration(memTask[runs[r].task].Interval).ok
         THEN /\ memTask' = [memTask EXCEPT ![runs[r].task] =
                    [@ EXCEPT !.Status = StatusOf(e),
                              !.NextRun = now + ParseDuration(
                                  memTask[runs[r].task].Interval).d]]
              /\ runs' = [runs EXCEPT ![r].pc = "save", ![r].err = e,
                                      ![r].invokedWith = "none",
                                      ![r].completedAt = now]
         ELSE /\ memTask' = [memTask EXCEPT
                                ![runs[r].task].Status = StatusOf(e)]
              /\ runs' = [runs EXCEPT ![r].pc = "failed", ![r].err = e,
                                      ![r].invokedWith = "none"]
    /\ UNCHANGED <<mainPc, executors, taskRow, scheduled, nextFire, loadErr,
                   now, faults>>

RunPersistResultUnschedules(r) ==
    /\ runs[r].pc = "save"
    /\ \E o \in Outcomes :
         /\ Charge(o)
         /\ taskRow' = IF o = "ok"
                       THEN UpdateTask(taskRow, runs[r].task,
                                       memTask[runs[r].task])
                       ELSE taskRow
         /\ runs' = [runs EXCEPT
                ![r].pc = IF o = "ok" /\ ~runs[r].err THEN "done"
                          ELSE "failed",
                ![r].saved = (o = "ok")]
         /\ scheduled' = IF o = "ok" /\ ~runs[r].err THEN scheduled
                         ELSE scheduled \ {runs[r].task}
    /\ UNCHANGED <<mainPc, executors, memTask, nextFire, loadErr, now>>

\* the second UpdateTask; Execute returns its error, or that of the executor
RunPersistResult(r) ==
    /\ runs[r].pc = "save"
    /\ \E o \in Outcomes :
         /\ Charge(o)
         /\ taskRow' = IF o = "ok"
                       THEN UpdateTask(taskRow, runs[r].task,
                                       memTask[runs[r].task])
                       ELSE taskRow
         /\ runs' = [runs EXCEPT
                ![r].pc = IF o = "ok" /\ ~runs[r].err THEN "done"
                          ELSE "failed",
                ![r].saved = (o = "ok")]
    /\ UNCHANGED <<mainPc, executors, memTask, scheduled, nextFire, loadErr,
                   now>>

\* ToggleTaskStatus on the row of a scheduled task t, while the scheduler
\* runs; the model has one such call in a behaviour
ToggleTaskStatus(t) ==
    /\ mainPc = "run"
    /\ t \in scheduled
    /\ \A u \in TaskIds : taskRow[u].Enabled = memTask[u].Enabled
    /\ taskRow' = [taskRow EXCEPT ![t].Enabled = ~@]
    /\ UNCHANGED <<mainPc, executors, memTask, scheduled, nextFire, runs,
                   loadErr, now, faults>>

RunStep(r) ==
    \/ RunMark(r)
    \/ RunPersistRunning(r)
    \/ RunReturn(r)
    \/ RunPersistResult(r)

SchedStep ==
    \/ RegisterTask
    \/ LoadTasks
    \/ Start
    \/ Shutdown
    \/ Tick
    \/ \E t \in TaskIds : Fire(t)
    \/ \E t \in TaskIds : ToggleTaskStatus(t)
    \/ \E r \in 1..Len(runs) : RunStep(r)

\* ------------------------------------------------------------------------
\* Extractor: RunFFprobe, Extract, parseFFprobeJSONOutput
\* ------------------------------------------------------------------------

\* strconv.ParseInt(s, 10, 64) and strconv.Atoi on the strings of the model:
\* an optional sign and at least one decimal digit, else a syntax error with
\* value 0
ParseInt(s) ==
    LET signed == Len(s) > 0 /\ s[1] \in {"+", "-"}
        digits == IF signed THEN SubSeq(s, 2, Len(s)) ELSE s
    IN IF Len(digits) > 0 /\ IsDigits(digits, 1, Len(digits))
       THEN [ok |-> TRUE,
             v |-> IF signed /\ s[1] = "-" THEN 0 - Atoi(digits)
                   ELSE Atoi(digits)]
       ELSE [ok |-> FALSE, v |-> 0]

\* the position of the decimal point of s, 0 if there is none
PointAt(s) ==
    IF \E i \in 1..Len(s) : s[i] = "." THEN LastIndex(s, ".") ELSE 0

Pow10(n) ==
    LET p[i \in 0..n] == IF i = 0 THEN 1 ELSE 10 * p[i - 1] IN p[n]

\* one second, in the nanoseconds of time.Duration
Second == 1000000000

\* strconv.ParseFloat(s, 64) on the strings of the model (decimal digits with
\* at most one point, no sign or exponent), as the nanoseconds
\* time.Duration(v * float64(time.Second)) gives; anything else is a syntax
\* error
ParseSeconds(s) ==
    LET dot == PointAt(s)
        whole == IF dot = 0 THEN s ELSE SubSeq(s, 1, dot - 1)
        frac == IF dot = 0 THEN <<>> ELSE SubSeq(s, dot + 1, Len(s))
    IN IF /\ Len(whole) + Len(frac) > 0
          /\ IsDigits(whole, 1, Len(whole))
          /\ IsDigits(frac, 1, Len(frac))
          /\ Len(frac) <= 9
       THEN [ok |-> TRUE,
             ns |-> Atoi(whole) * Second
                    + Atoi(frac) * Pow10(9 - Len(frac))]
       ELSE [ok |-> FALSE, ns |-> 0]

\* output that is not a JSON document
Garbage == [garbage |-> TRUE]

\* the record parseFFprobeJSONOutput starts from: the format fields that need
\* no parsing, every other field at its zero value
MetadataOf(doc) ==
    [Filename |-> "", FormatName |-> doc.Format.FormatName,
     Container |-> doc.Format.FormatName,
     Duration |-> 0, Size |-> 0, BitRate |-> 0,
     Codec |-> "", ResolutionWidth |-> 0,
     VideoTracks |-> <<>>, AudioTracks |-> <<>>, SubtitleTracks |-> <<>>]

\* one turn of the loop over the streams
AddStream(m, stream) ==
    IF stream.CodecType = "video"
    THEN [m EXCEPT !.Codec = stream.CodecName,
                   !.ResolutionWidth = stream.Width,
                   !.VideoTracks = Append(@, [Index |-> stream.Index,
                                              CodecName |-> stream.CodecName,
                                              Width |-> stream.Width])]
    ELSE IF stream.CodecType = "audio"
    THEN [m EXCEPT !.AudioTracks =
              Append(@, [Index |-> stream.Index, Codec |-> stream.CodecName,
                         Channels |-> stream.Channels,
                         BitRate |-> IF stream.BitRate = <<>> THEN 0
                                     ELSE ParseInt(stream.BitRate).v])]
    ELSE IF stream.CodecType = "subtitle"
    THEN [m EXCEPT !.SubtitleTracks =
              Append(@, [Index |-> stream.Index,
                         CodecName |-> stream.CodecName])]
    ELSE m

\* the loop over the streams, in document order
AddStreams(m, streams) ==
    LET acc[n \in 0..Len(streams)] ==
            IF n = 0 THEN m ELSE AddStream(acc[n - 1], streams[n])
    IN acc[Len(streams)]

\* a parser that gives up on a duration that is not numeric
parseFFprobeStrict(output) ==
    IF output = Garbage \/ ~ParseSeconds(output.Format.Duration).ok
    THEN [meta |-> Nil, err |-> TRUE]
    ELSE [meta |-> AddStreams(
                      [MetadataOf(output) EXCEPT
                          !.Duration = ParseSeconds(output.Format.Duration).ns,
                          !.Size = ParseInt(output.Format.Size).v,
                          !.BitRate = ParseInt(output.Format.BitRate).v],
                      output.Streams),
          err |-> FALSE]

\* parseFFprobeJSONOutput: (metadata, error)
parseFFprobeJSONOutput(output) ==
    IF output = Garbage
    THEN [meta |-> Nil, err |-> TRUE]
    ELSE [meta |-> AddStreams(
                      [MetadataOf(output) EXCEPT
                          !.Duration = ParseSeconds(output.Format.Duration).ns,
                          !.Size = ParseInt(output.Format.Size).v,
                          !.BitRate = ParseInt(output.Format.BitRate).v],
                      output.Streams),
          err |-> FALSE]

\* RunFFprobe: (output, error).  A non-zero exit returns the captured output
\* with an error, a tool that is not installed or cannot be run nil with one.
RunFFprobe(run) ==
    IF run.exit = "install" THEN [output |-> Nil, err |-> TRUE]
    ELSE IF run.exit = "nonzero" THEN [output |-> run.output, err |-> TRUE]
    ELSE IF run.exit = "exec" THEN [output |-> Nil, err |-> TRUE]
    ELSE [output |-> run.output, err |-> FALSE]

\* Extract: (metadata, error).  Any error of RunFFprobe returns nil at once,
\* so the error returned with parsed metadata (ffprobeError) is always nil.
Extract(run) ==
    IF RunFFprobe(run).err
    THEN [meta |-> Nil, err |-> TRUE]
    ELSE IF parseFFprobeJSONOutput(RunFFprobe(run).output).err
    THEN [meta |-> Nil, err |-> TRUE]
    ELSE [meta |-> [parseFFprobeJSONOutput(RunFFprobe(run).output).meta
                       EXCEPT !.Filename = run.path],
          err |-> FALSE]

\* the inputs of the extractor in the model
DurationStrings == { <<"1", ".", "5">>, <<"2">>, <<"N", "/", "A">>, <<>> }
SizeStrings == { <<"1", "0", "2", "4">>, <<"b", "i", "g">> }
BitRateStrings == { <<"8", "0", "0">>, <<"N", "/", "A">> }

VideoA ==
    [Index |-> 0, CodecType |-> "video", CodecName |-> "h264",
     Width |-> 1920, Channels |-> 0, BitRate |-> <<>>]
VideoB ==
    [Index |-> 1, CodecType |-> "video", CodecName |-> "hevc",
     Width |-> 1280, Channels |-> 0, BitRate |-> <<>>]
AudioA ==
    [Index |-> 2, CodecType |-> "audio", CodecName |-> "aac",
     Width |-> 0, Channels |-> 2, BitRate |-> <<"1", "2", "8">>]
AudioB ==
    [Index |-> 3, CodecType |-> "audio", CodecName |-> "ac3",
     Width |-> 0, Channels |-> 6, BitRate |-> <<"x">>]
SubtitleA ==
    [Index |-> 4, CodecType |-> "subtitle", CodecName |-> "srt",
     Width |-> 0, Channels |-> 0, BitRate |-> <<>>]
DataA ==
    [Index |-> 5, CodecType |-> "data", CodecName |-> "bin",
     Width |-> 0, Channels |-> 0, BitRate |-> <<>>]

StreamLists ==
    { <<>>, <<VideoA>>, <<VideoA, AudioA>>, <<VideoA, VideoB>>,
      <<AudioB, VideoB, SubtitleA>>, <<DataA, VideoB, VideoA, AudioA>> }

ProbeDocuments ==
    {Garbage} \cup
    { [Format |-> [FormatName |-> "matroska", Duration |-> d, Size |-> z,
                   BitRate |-> b],
       Streams |-> st] :
        d \in DurationStrings, z \in SizeStrings, b \in BitRateStrings,
        st \in StreamLists }

ProbeRuns ==
    { [path |-> "/mv/Heat.mkv", exit |-> e, output |-> doc] :
        e \in {"zero", "nonzero", "exec", "install"}, doc \in ProbeDocuments }

VARIABLES
    probeRun,    \* what running the probe tool on a file does
    probeOut,    \* what Extract returned, NotCalled before it is called
    parseOut     \* what parseFFprobeJSONOutput returned for the output of
                 \* the run, NotCalled before it is called

probeVars == <<probeRun, probeOut, parseOut>>

NotCalled == [called |-> FALSE]

\* no call of the extractor yet
ProbeInitWith(run) ==
    /\ probeRun = run
    /\ probeOut = NotCalled
    /\ parseOut = NotCalled

\* s.mediaExtractor.Extract(ctx, filePath)
CallExtract ==
    /\ probeOut = NotCalled
    /\ probeOut' = Extract(probeRun)
    /\ UNCHANGED <<probeRun, parseOut>>

\* s.parseFFprobeJSONOutput(output)
CallParse ==
    /\ parseOut = NotCalled
    /\ parseOut' = parseFFprobeJSONOutput(probeRun.output)
    /\ UNCHANGED <<probeRun, probeOut>>

ProbeStep == CallExtract \/ CallParse

\* ------------------------------------------------------------------------
\* The filename parsers called on their own: extractMovieInfo and
\* extractTVShowInfo on one file name
\* ------------------------------------------------------------------------

\* the pieces file names of the model are made of
NameStems ==
    { <<"S", "h", "o", "w", ".", "N", "a", "m", "e">>,
      <<"U", "n", "k", "n", "o", "w", "n", ".", "M", "o", "v", "i", "e">>,
      <<"I", "n", "c", "e", "p", "t", "i", "o", "n">>,
      <<"T", "h", "e", "_", "S", "h", "o", "w">> }

NameJoins == { <<".">>, <<" ">>, <<"_">>, <<" ", "-", " ">> }

NameTokens ==
    { <<"S", "0", "2", "E", "0", "5">>,
      <<"s", "1", "e", "2">>,
      <<"S", "1", "0", "E", "1", "2">>,
      <<"2", "x", "0", "5">>,
      <<"2", "0", "5">>,
      <<"(", "2", "0", "1", "0", ")">>,
      <<"[", "2", "0", "1", "0", "]">>,
      <<"2", "0", "1", "0", ".", "1", "0", "8", "0", "p">>,
      <<"1", "x", "0", "2", ".", "S", "0", "3", "E", "0", "4">>,
      <<"S", "0", "1", "E", "0", "2", ".", "3", "x", "0", "4">> }

Mkv == <<".", "m", "k", "v">>

FileNames ==
    { stem \o Mkv : stem \in NameStems } \cup
    { stem \o join \o token \o Mkv :
        stem \in NameStems, join \in NameJoins, token \in NameTokens }

VARIABLES parseName, movieOut, tvOut

parseVars == <<parseName, movieOut, tvOut>>

\* no call of a parser yet
ParseInitWith(name) ==
    /\ parseName = name
    /\ movieOut = NotCalled
    /\ tvOut = NotCalled

\* movieInfo := extractMovieInfo(filePath)
CallExtractMovieInfo ==
    /\ movieOut = NotCalled
    /\ movieOut' = extractMovieInfo(parseName)
    /\ UNCHANGED <<parseName, tvOut>>

\* showInfo := extractTVShowInfo(filePath)
CallExtractTVShowInfo ==
    /\ tvOut = NotCalled
    /\ tvOut' = extractTVShowInfo(parseName)
    /\ UNCHANGED <<parseName, movieOut>>

ParseStep == CallExtractMovieInfo \/ CallExtractTVShowInfo

\* ------------------------------------------------------------------------
\* The specifications: the scanner run sequentially, and the scheduler
\* ------------------------------------------------------------------------

ScanStep(s) ==
    \/ StartScan(s)
    \/ NextLibrary(s)
    \/ NextPath(s)
    \/ WalkEntry(s)
    \/ MovieFindByPath(s)
    \/ MovieTouch(s)
    \/ MovieProbe(s)
    \/ MovieSearch(s)
    \/ MovieStore(s)
    \/ SeriesParse(s)
    \/ EpisodeFindByPath(s)
    \/ EpisodeTouch(s)
    \/ SeriesProbe(s)
    \/ SeriesSearch(s)
    \/ SeriesFindByID(s)
    \/ SeriesStore(s)
    \/ SeriesUpdate(s)
    \/ SeasonFindByNumber(s)
    \/ SeasonStore(s)
    \/ SeasonUpdate(s)
    \/ EpisodeAdd(s)

scanVars ==
    <<movies, series, seasons, episodes, libScanned, scans, sc, calls, okScans>>

vars == <<scanVars, schedVars, probeVars, parseVars, now, faults>>

\* the extractor before any call, on a run that succeeds with an empty
\* document
IdleProbe ==
    ProbeInitWith([path |-> "/mv/Heat.mkv", exit |-> "zero",
                   output |-> Garbage])

\* the parsers before any call
IdleParse == ParseInitWith(Base(FilePath[7]))

\* the task rows of an installation that schedules nothing
NoTasks ==
    [t \in TaskIds |->
        [Enabled |-> FALSE, Type |-> "scanner", Interval |-> "1s",
         LastRun |-> 0, NextRun |-> 0, Status |-> "idle"]]

Init ==
    /\ ScanInit
    /\ SchedInitWith(NoTasks)
    /\ IdleProbe
    /\ IdleParse
    /\ now = 0
    /\ faults = 0

Next == ScanStep(1) /\ UNCHANGED <<schedVars, probeVars, parseVars>>

Spec == Init /\ [][Next]_vars

\* the next step of the execution reads and writes no table
Local(l) ==
    l.pc \in {"lib", "walk", "tv_parse", "mv_probe", "mv_search", "tv_probe",
              "tv_search"}

\* two scanner executions at once (two overlapping firings of the scanner
\* task, or a firing and a scan started by hand), each of them one call of
\* ScanLibraries.  The steps of the first that touch no table commute with
\* the steps of the second, and are taken before the second moves.
ConcNext ==
    /\ \E s \in Scanners :
          /\ sc[s].pc \notin {"done", "panicked"}
          /\ s = 2 => ~Local(sc[1])
          /\ ScanStep(s)
          /\ sc[s].pc \in {"mv_probe", "tv_probe"} => sc'[s].fileMeta # Nil
    /\ UNCHANGED <<schedVars, probeVars, parseVars>>

\* no storage call fails while the two executions run (and, in ConcNext, no
\* probe)
ConcInit ==
    /\ ScanInit
    /\ SchedInitWith(NoTasks)
    /\ IdleProbe
    /\ IdleParse
    /\ now = 0
    /\ faults = MaxFaults

SpecConc == ConcInit /\ [][ConcNext]_vars

\* the scheduler, with every choice of persisted task rows and an empty
\* library store
SchedInit ==
    /\ ScanInit
    /\ \E rows \in TaskRows : SchedInitWith(rows)
    /\ IdleProbe
    /\ IdleParse
    /\ now = 0
    /\ faults = 0

SchedNext == SchedStep /\ UNCHANGED <<scanVars, probeVars, parseVars>>

SpecSched == SchedInit /\ [][SchedNext]_vars

\* the extractor, on every run of the probe tool of the model
ProbeInit ==
    /\ ScanInit
    /\ SchedInitWith(NoTasks)
    /\ \E run \in ProbeRuns : ProbeInitWith(run)
    /\ IdleParse
    /\ now = 0
    /\ faults = 0

ProbeNext ==
    ProbeStep /\ UNCHANGED <<scanVars, schedVars, parseVars, now, faults>>

SpecProbe == ProbeInit /\ [][ProbeNext]_vars

\* the filename parsers, on every file name of the model
ParseInit ==
    /\ ScanInit
    /\ SchedInitWith(NoTasks)
    /\ IdleProbe
    /\ \E name \in FileNames : ParseInitWith(name)
    /\ now = 0
    /\ faults = 0

ParseNext ==
    ParseStep /\ UNCHANGED <<scanVars, schedVars, probeVars, now, faults>>

SpecParse == ParseInit /\ [][ParseNext]_vars


\* ------------------------------------------------------------------------
\* Properties of the scanner and the reconciler
\* ------------------------------------------------------------------------

\* persisted Movie and Episode rows with file path p
EntitiesIn(ms, es, p) ==
    Cardinality({i \in 1..Len(ms) : ms[i].FilePath = p})
    + Cardinality({i \in 1..Len(es) : es[i].FilePath = p})

EntitiesAt(p) == EntitiesIn(movies, episodes, p)

\* p goes to series reconciliation and its name gives no season or episode
Skipped(p) ==
    LikelyTV[p] /\ (TVInfo[p].Season = 0 \/ TVInfo[p].Episode = 0)

\* the video files under the enabled paths of the auto-scan libraries
VideoPaths ==
    {p \in FileIds :
        /\ ~IsDir[p]
        /\ VideoFile[p]
        /\ \E i \in LibIds :
              /\ Libraries[i].AutoScan
              /\ \E q \in 1..Len(Libraries[i].Paths) :
                    /\ Libraries[i].Paths[q].Enabled
                    /\ \E k \in 1..Len(Libraries[i].Paths[q].Entries) :
                          Libraries[i].Paths[q].Entries[k] = p}

\* the files whose reconciliation has returned in the current ScanLibrary
Reconciled(l) == {l.log[k].file : k \in 1..Len(l.log)}

\* ScanLibrary has returned for library l.began
LibScanDone(l) == l.pc \in {"lib", "done"} /\ l.began # 0 /\ l.li = l.began + 1

\* rows are changed in their LastScanned only
OnlyLastScannedChanges(old, new) ==
    \A i \in 1..Len(old) :
        /\ i <= Len(new)
        /\ new[i] = [old[i] EXCEPT !.LastScanned = new[i].LastScanned]

\* C1 as stated: after two scans that both returned nil with no storage
\* failure, every video file path has exactly one persisted entity.
C1_Original ==
    (okScans = 2 /\ faults = 0) =>
        \A p \in VideoPaths : EntitiesAt(p) = 1

\* C1 (amended): sequential scans leave at most one persisted Movie or
\* Episode per file path; exactly one once a reconciliation of the path has
\* returned nil, unless the file is skipped as an unparseable episode, which
\* leaves none; and no step changes anything of an existing Movie or Episode
\* row except its LastScanned stamp.
C1_IdempotentRescan ==
    [][ /\ \A p \in FileIds : EntitiesIn(movies', episodes', p) <= 1
        /\ \A k \in 1..Len(sc'[1].log) :
              ~sc'[1].log[k].err =>
                  EntitiesIn(movies', episodes', sc'[1].log[k].file) =
                      (IF Skipped(sc'[1].log[k].file) THEN 0 ELSE 1)
        /\ OnlyLastScannedChanges(movies, movies')
        /\ OnlyLastScannedChanges(episodes, episodes') ]_vars

\* a second scan has found an entity of the first and stamped it
C1_Witness ==
    /\ scans = 2
    /\ \E i \in 1..Len(episodes) :
          /\ episodes[i].DateAdded = 1
          /\ episodes[i].LastScanned = 2
          /\ EntitiesAt(episodes[i].FilePath) = 1
    /\ \E i \in 1..Len(movies) :
          /\ movies[i].DateAdded = 1
          /\ movies[i].LastScanned = 2

\* the video files visited after position i of a walk
LaterVideo(entries, i) ==
    {entries[j] : j \in {j \in (i+1)..Len(entries) : entries[j] \in VideoPaths}}

\* C2: when ScanLibrary has returned, every video file that follows, in walk
\* order, a file whose reconciliation returned an error has been reconciled
\* too, and the library's lastScanned has been updated.
C2_FaultIsolation ==
    LET l == sc[1] IN
    LibScanDone(l) =>
        \A k \in 1..Len(l.log) :
            l.log[k].err =>
                /\ l.updated
                /\ \A q \in 1..Len(Libraries[l.began].Paths) :
                     \A i \in 1..Len(Libraries[l.began].Paths[q].Entries) :
                        Libraries[l.began].Paths[q].Entries[i] = l.log[k].file
                        => LaterVideo(Libraries[l.began].Paths[q].Entries, i)
                               \subseteq Reconciled(l)

\* C9: the step that parses a file whose name gives a zero season or episode
\* returns nil for the file and changes no table; no probe or catalog call is
\* ever made for such a file and no Episode is kept for it; and every Episode
\* carries the non-zero episode number, and its Season the non-zero season
\* number, parsed from the Episode's file name.
C9_UnparseableSkipped ==
    [][ /\ (sc[1].pc = "tv_parse" /\ Skipped(sc[1].file)) =>
              /\ UNCHANGED storeVars
              /\ sc'[1].pc = "walk"
              /\ sc'[1].fi = sc[1].fi + 1
              /\ sc'[1].log = Append(sc[1].log,
                                     [file |-> sc[1].file, err |-> FALSE])
        /\ \A p \in FileIds :
              Skipped(p) => /\ <<"probe", p>> \notin calls'
                            /\ <<"catalog", p>> \notin calls'
                            /\ EntitiesIn(movies', episodes', p) = 0
        /\ \A i \in 1..Len(episodes') :
              /\ episodes'[i].EpisodeNumber # 0
              /\ episodes'[i].EpisodeNumber = TVInfo[episodes'[i].FilePath].Episode
              /\ episodes'[i].SeasonID \in 1..Len(seasons')
              /\ seasons'[episodes'[i].SeasonID].SeasonNumber # 0
              /\ seasons'[episodes'[i].SeasonID].SeasonNumber
                     = TVInfo[episodes'[i].FilePath].Season ]_vars

\* an unparseable file has been handled, and an episode persisted beside it
C9_Witness ==
    /\ \E k \in 1..Len(sc[1].log) :
          Skipped(sc[1].log[k].file) /\ ~sc[1].log[k].err
    /\ Len(episodes) > 0

\* every Episode references a persisted Season of the same persisted Series,
\* every Season a persisted Series
RefIntegrity ==
    /\ \A i \in 1..Len(episodes) :
          /\ episodes[i].SeasonID \in 1..Len(seasons)
          /\ episodes[i].SeriesID \in 1..Len(series)
          /\ seasons[episodes[i].SeasonID].SeriesID = episodes[i].SeriesID
    /\ \A i \in 1..Len(seasons) : seasons[i].SeriesID \in 1..Len(series)

\* the rows of a table stay, under their primary keys
RowsRemain(old, new) ==
    /\ Len(new) >= Len(old)
    /\ \A i \in 1..Len(old) : new[i].ID = old[i].ID /\ new[i].ID = i

\* C10: referential integrity of the series tree holds in every state, and
\* no step (a failing one included) removes a Series, Season or Episode row.
C10_ReferentialIntegrity ==
    [][ /\ RefIntegrity'
        /\ RowsRemain(series, series')
        /\ RowsRemain(seasons, seasons')
        /\ RowsRemain(episodes, episodes') ]_vars

\* a reconciliation has failed at the Episode step: its Series and Season
\* are persisted and no Episode references the Season
C10_Witness ==
    LET l == sc[1] IN
    /\ Len(l.log) > 0
    /\ l.log[Len(l.log)].err
    /\ \E i \in 1..Len(seasons) :
          /\ seasons[i].DateAdded = now
          /\ seasons[i].SeasonNumber = TVInfo[l.log[Len(l.log)].file].Season
          /\ seasons[i].SeriesID \in 1..Len(series)
          /\ \A j \in 1..Len(episodes) : episodes[j].SeasonID # i

\* the identity key of a Series row: the catalog id when the catalog resolved
\* the title, the title otherwise
IdentityKey(row) ==
    IF row.TMDbID # 0 THEN <<"catalog", row.TMDbID>> ELSE <<"title", row.Title>>

\* C11: no two persisted Series share an identity key; stated for the
\* Series the catalog resolved, whose key is the catalog id.
C11_OneSeriesPerIdentity ==
    \A i, j \in 1..Len(series) :
        (i # j /\ series[i].TMDbID # 0)
            => IdentityKey(series[i]) # IdentityKey(series[j])

\* no two rows of a season table share (SeriesID, SeasonNumber)
SeasonsUnique(table) ==
    \A i, j \in 1..Len(table) :
        (/\ table[i].SeriesID = table[j].SeriesID
         /\ table[i].SeasonNumber = table[j].SeasonNumber) => i = j

\* C12: in sequential scans no two persisted Seasons share (SeriesID,
\* SeasonNumber), and a step changes nothing of an existing Season except
\* its LastScanned stamp.
C12_SeasonUnique ==
    [][ /\ SeasonsUnique(seasons')
        /\ OnlyLastScannedChanges(seasons, seasons') ]_vars

\* a second episode file of a season has found the season and stamped it
C12_Witness ==
    /\ Len(seasons) = 1
    /\ seasons[1].LastScanned # 0
    /\ \E i, j \in 1..Len(episodes) :
          /\ i # j
          /\ episodes[i].SeasonID = 1
          /\ episodes[j].SeasonID = 1

\* C13: no two persisted Episodes share (SeasonID, EpisodeNumber).
C13_EpisodeUnique ==
    \A i, j \in 1..Len(episodes) :
        (/\ episodes[i].SeasonID = episodes[j].SeasonID
         /\ episodes[i].EpisodeNumber = episodes[j].EpisodeNumber) => i = j

\* C14: at most one persisted Movie or Episode per file path, also when two
\* scanner executions interleave.
C14_OneItemPerPath ==
    \A p \in FileIds : EntitiesAt(p) <= 1

\* C18: a catalog search that fails or finds nothing does not end the
\* reconciliation of a new movie file: unless the store itself fails, a Movie
\* is created for the file, with the title of the filename and no catalog id
\* when there are no results, and with the title, catalog id and overview of
\* result[0] when there are.
C18_CatalogFallback ==
    [][ /\ sc[1].pc = "mv_search" => sc'[1].pc = "mv_store"
        /\ (sc[1].pc = "mv_store" /\ faults' = faults) =>
              /\ Len(movies') = Len(movies) + 1
              /\ movies'[Len(movies')].FilePath = sc[1].file
              /\ IF Len(sc[1].search.Results) = 0
                 THEN /\ movies'[Len(movies')].Title =
                             MovieInfo[sc[1].file].Title
                      /\ movies'[Len(movies')].TMDbID = 0
                      /\ movies'[Len(movies')].Overview = ""
                 ELSE /\ movies'[Len(movies')].Title =
                             sc[1].search.Results[1].Title
                      /\ movies'[Len(movies')].TMDbID =
                             sc[1].search.Results[1].ID
                      /\ movies'[Len(movies')].Overview =
                             sc[1].search.Results[1].Overview ]_vars

\* the file name has a year in parentheses, in brackets or between dots
HasYearToken(name) ==
    \E i \in 1..(Len(name) - 5) :
        /\ IsDigits(name, i + 1, 4)
        /\ \/ name[i] = "(" /\ name[i + 5] = ")"
           \/ name[i] = "[" /\ name[i + 5] = "]"
           \/ name[i] = "." /\ name[i + 5] = "."

DotsToSpaces(s) == [i \in 1..Len(s) |-> IF s[i] = "." THEN " " ELSE s[i]]

\* C19: for a file name without a year token, extractMovieInfo gives an
\* empty year and the stem with its dots replaced by spaces; and
\* "Inception (2010).mkv" gives the title "Inception" and the year "2010".
C19_MovieWithoutYear ==
    movieOut # NotCalled =>
        /\ ~HasYearToken(parseName) =>
              /\ movieOut.Year = <<>>
              /\ movieOut.Title = DotsToSpaces(NameOnly(parseName))
        /\ parseName = <<"I", "n", "c", "e", "p", "t", "i", "o", "n", " ",
                         "(", "2", "0", "1", "0", ")", ".", "m", "k", "v">> =>
              /\ movieOut.Title = <<"I", "n", "c", "e", "p", "t", "i", "o", "n">>
              /\ movieOut.Year = <<"2", "0", "1", "0">>

\* the submatches of the three patterns on the stem of the file name
SxxEyy(name) == TVSubmatch(NameOnly(name), "s", "e", {1, 2}, {1, 2})
NNxMM(name) == TVSubmatch(NameOnly(name), "", "x", {1, 2}, {1, 2})
CompactSEE(name) == TVSubmatch(NameOnly(name), "", "", {1}, {2})

\* the submatches that decide: those of the first pattern that matches
Deciding(name) ==
    IF SxxEyy(name) # <<>> THEN SxxEyy(name)
    ELSE IF NNxMM(name) # <<>> THEN NNxMM(name)
    ELSE CompactSEE(name)

\* s has no dot or underscore, no space at either end and no two spaces in
\* a row
Collapsed(s) ==
    /\ \A i \in 1..Len(s) : s[i] \notin {".", "_"}
    /\ s # <<>> => s[1] # " " /\ s[Len(s)] # " "
    /\ \A i \in 1..(Len(s) - 1) : ~(s[i] = " " /\ s[i + 1] = " ")

\* C20: the first of SxxEyy, NNxMM and compact SEE that matches gives the
\* season and the episode; the title is the text before the token with dots
\* and underscores replaced by spaces and white space collapsed;
\* "Show.Name.S02E05.mkv" gives title "Show Name", season 2, episode 5.
C20_PatternOrder ==
    tvOut # NotCalled =>
        /\ Deciding(parseName) # <<>> =>
              /\ tvOut.Season = Atoi(Deciding(parseName)[2])
              /\ tvOut.Episode = Atoi(Deciding(parseName)[3])
              /\ tvOut.Title = cleanTitle(Deciding(parseName)[1])
              /\ Collapsed(tvOut.Title)
        /\ parseName = <<"S", "h", "o", "w", ".", "N", "a", "m", "e", ".",
                         "S", "0", "2", "E", "0", "5", ".", "m", "k", "v">> =>
              tvOut = [Title |-> <<"S", "h", "o", "w", " ", "N", "a", "m", "e">>,
                       Season |-> 2, Episode |-> 5]

\* extractTVShowInfo has been called on a name that matches SxxEyy and a
\* later pattern with other numbers
C20_Witness ==
    /\ tvOut # NotCalled
    /\ SxxEyy(parseName) # <<>>
    /\ \/ /\ NNxMM(parseName) # <<>>
          /\ NNxMM(parseName)[2] # SxxEyy(parseName)[2]
       \/ /\ CompactSEE(parseName) # <<>>
          /\ CompactSEE(parseName)[2] # SxxEyy(parseName)[2]
    /\ tvOut.Season = Atoi(SxxEyy(parseName)[2])

\* C21: a find operation of a repository returns a nil entity with a nil
\* error when the entity is absent, and an error only when the query fails;
\* here for the Movie lookup by id on every store the scanner produces.
C21_NotFoundIsNil ==
    \A id \in 1..(Len(movies) + 1) :
        /\ MovieFindByID(movies, id, TRUE).err # "nil"
        /\ MovieFindByID(movies, id, FALSE).err = "nil"
        /\ id > Len(movies) => MovieFindByID(movies, id, FALSE).entity = Nil

\* C22: ScanLibraries never walks, reconciles files of, or stamps a library
\* without auto-scan, and ScanLibrary never walks a disabled path; when
\* ScanLibrary returns, with an error or without, the next library is taken;
\* ScanLibraries returns an error only when listing the libraries failed.
C22_DisabledUntouched ==
    [][ /\ sc'[1].pc \notin {"idle", "lib", "done"} =>
              Libraries[sc'[1].li].AutoScan
        /\ sc'[1].pc \notin {"idle", "lib", "done", "path"} =>
              CurPath(sc'[1]).Enabled
        /\ \A i \in LibIds :
              ~Libraries[i].AutoScan => libScanned'[i] = libScanned[i]
        /\ \A i \in 1..Len(movies') : movies'[i].FilePath \in VideoPaths
        /\ \A i \in 1..Len(episodes') : episodes'[i].FilePath \in VideoPaths
        /\ \A c \in calls' : c[2] \in VideoPaths
        /\ (sc[1].pc = "path" /\ sc[1].pi > Len(CurLib(sc[1]).Paths)) =>
              (sc'[1].pc = "lib" /\ sc'[1].li = sc[1].li + 1)
        /\ sc'[1].result = "error" => sc'[1].li = 0 ]_vars

\* a scan has returned nil after the save of library 1 failed: library 2 is
\* stamped and has its Movie, the disabled path and library 3 are untouched
C22_Witness ==
    /\ scans = 1
    /\ okScans = 1
    /\ faults = 1
    /\ libScanned[1] = 0
    /\ libScanned[2] = 1
    /\ libScanned[3] = 0
    /\ Len(movies) = 1
    /\ Len(episodes) > 0

\* the table new is the table old, but for the LastScanned of the row id,
\* which is now or what it was
Stamped(old, new, id) ==
    /\ Len(new) = Len(old)
    /\ \A i \in 1..Len(old) :
          \/ new[i] = old[i]
          \/ i = id /\ new[i] = [old[i] EXCEPT !.LastScanned = now]

\* C23: when a Movie or an Episode exists for the scanned path, its
\* reconciliation makes no probe call, no catalog call and no create: the
\* lookup leads to the stamping step only, and that step changes nothing but
\* the LastScanned of that row before the file's reconciliation returns.
C23_RescanUpdateOnly ==
    [][ /\ (sc[1].pc = "mv_find" /\ FindByPath(movies, sc[1].file) # Nil) =>
              /\ UNCHANGED <<storeVars, calls>>
              /\ sc'[1].pc \in {"mv_touch", "path"}
        /\ (sc[1].pc = "tv_find" /\ FindByPath(episodes, sc[1].file) # Nil) =>
              /\ UNCHANGED <<storeVars, calls>>
              /\ sc'[1].pc \in {"tv_touch", "path"}
        /\ sc[1].pc = "mv_touch" =>
              /\ UNCHANGED <<series, seasons, episodes, calls>>
              /\ movies[sc[1].existing.ID].FilePath = sc[1].file
              /\ Stamped(movies, movies', sc[1].existing.ID)
              /\ sc'[1].pc \in {"walk", "path"}
        /\ sc[1].pc = "tv_touch" =>
              /\ UNCHANGED <<series, seasons, movies, calls>>
              /\ episodes[sc[1].existing.ID].FilePath = sc[1].file
              /\ Stamped(episodes, episodes', sc[1].existing.ID)
              /\ sc'[1].pc \in {"walk", "path"} ]_vars

\* the second scan has just stamped the Movie the first scan created
C23_Witness ==
    /\ scans = 2
    /\ sc[1].pc = "walk"
    /\ sc[1].log # <<>>
    /\ sc[1].log[Len(sc[1].log)] = [file |-> 7, err |-> FALSE]
    /\ Len(movies) = 1
    /\ movies[1].DateAdded = 1
    /\ movies[1].LastScanned = 2
    /\ \E i \in 1..Len(episodes) :
          episodes[i].DateAdded = 1 /\ episodes[i].LastScanned = 2

IsVideo(stream) == stream.CodecType = "video"

\* the video streams of a probe document, in document order
VideoStreams(doc) == SelectSeq(doc.Streams, IsVideo)

\* C24: for a probe document with two or more video streams, the top-level
\* codec and resolution of the metadata are those of the first video stream,
\* and the video track list has all the video streams in document order.
C24_FirstVideoWins ==
    (/\ parseOut # NotCalled
     /\ ~parseOut.err
     /\ Len(VideoStreams(probeRun.output)) >= 2) =>
        /\ parseOut.meta.Codec = VideoStreams(probeRun.output)[1].CodecName
        /\ parseOut.meta.ResolutionWidth =
               VideoStreams(probeRun.output)[1].Width
        /\ Len(parseOut.meta.VideoTracks) = Len(VideoStreams(probeRun.output))
        /\ \A k \in 1..Len(parseOut.meta.VideoTracks) :
              parseOut.meta.VideoTracks[k].Index =
                  VideoStreams(probeRun.output)[k].Index

\* C25: in ScanLibrary the end of a walk, with an error or without, leads to
\* the next path of the same library; every enabled path that is reached is
\* walked; and the library is stamped only after its last path.
C25_PerPathIsolation ==
    [][ /\ (sc[1].pc \notin {"idle", "lib", "done", "panicked", "path"}
            /\ sc'[1].pc \in {"lib", "done", "path"}) =>
              /\ sc'[1].pc = "path"
              /\ sc'[1].li = sc[1].li
              /\ sc'[1].pi = sc[1].pi + 1
        /\ (sc[1].pc = "path" /\ sc[1].pi <= Len(CurLib(sc[1]).Paths)) =>
              /\ sc'[1].li = sc[1].li
              /\ IF CurPath(sc[1]).Enabled
                 THEN sc'[1].pc = "walk" /\ sc'[1].pi = sc[1].pi
                      /\ sc'[1].fi = 1
                 ELSE sc'[1].pc = "path" /\ sc'[1].pi = sc[1].pi + 1
        /\ \A i \in LibIds :
              libScanned'[i] # libScanned[i] =>
                  /\ sc[1].pc = "path"
                  /\ sc[1].li = i
                  /\ sc[1].pi = Len(Libraries[i].Paths) + 1 ]_vars

\* the walk of the first path of library 1 failed before any file was
\* reconciled, and ScanLibrary has gone on to stamp the library
C25_Witness ==
    /\ scans = 1
    /\ faults = 1
    /\ sc[1].pc = "lib"
    /\ sc[1].li = 2
    /\ sc[1].log = <<>>
    /\ sc[1].updated
    /\ libScanned[1] = 1

\* the video files under the enabled paths of library i
LibraryVideo(i) ==
    {p \in VideoPaths :
        \E q \in 1..Len(Libraries[i].Paths) :
            /\ Libraries[i].Paths[q].Enabled
            /\ \E k \in 1..Len(Libraries[i].Paths[q].Entries) :
                  Libraries[i].Paths[q].Entries[k] = p}

\* C26: a scan stamps a library's lastScanned only if its walks were
\* complete: when ScanLibrary has returned with the stamp written, every
\* video file of the library has been visited by that scan.
C26_StampOnlyCompleteWalks ==
    (LibScanDone(sc[1]) /\ sc[1].updated) =>
        LibraryVideo(sc[1].began) \subseteq Reconciled(sc[1])

\* C27: when a repository call of an episode's reconciliation fails, the
\* reconciliation of the file ends there with an error, and the failed step
\* leaves the persisted entities as they were.
C27_FailingStepEndsFile ==
    [][ (/\ sc[1].pc \in {"tv_find", "tv_series_find",
                          "tv_series_store", "tv_series_update",
                          "tv_season_find", "tv_season_store",
                          "tv_season_update", "tv_episode"}
         /\ faults' = faults + 1) =>
            /\ UNCHANGED storeVars
            /\ sc'[1].pc = "path"
            /\ sc'[1].log =
                   Append(sc[1].log, [file |-> sc[1].file, err |-> TRUE])
      ]_vars

\* C28: a file name that extractTVShowInfo parses to a season and an episode
\* that are not zero satisfies isLikelyTVFile, so that processFile sends it to
\* the series reconciliation.
C28_PrefilterLosesNone ==
    (tvOut # NotCalled /\ tvOut.Season # 0 /\ tvOut.Episode # 0) =>
        isLikelyTVFile(parseName)

\* C15: a failed probe of a new file does not crash the scan.
C15_ProbeFailureTolerated ==
    \A s \in Scanners : sc[s].result # "panic"

\* ------------------------------------------------------------------------
\* Properties of the extractor
\* ------------------------------------------------------------------------

\* C16: when the probe tool exits non-zero and its output parses, Extract
\* returns the parsed metadata together with the error.
C16_SoftError ==
    (/\ probeOut # NotCalled
     /\ probeRun.exit = "nonzero"
     /\ probeRun.output # Garbage)
        => (probeOut.meta # Nil /\ probeOut.err)

\* the document with one format field replaced
WithDuration(doc, d) == [doc EXCEPT !.Format.Duration = d]
WithSize(doc, z) == [doc EXCEPT !.Format.Size = z]
WithBitRate(doc, b) == [doc EXCEPT !.Format.BitRate = b]

\* C17: for a well-formed document the parser returns a record and no
\* error; a duration, size or bitrate that is not numeric gives 0 in that
\* field, and every other field and every track is what the same document
\* with a numeric value gives.
C17_FieldParseResilience ==
    (parseOut # NotCalled /\ probeRun.output # Garbage) =>
        /\ ~parseOut.err
        /\ ~ParseSeconds(probeRun.output.Format.Duration).ok =>
              \A d \in DurationStrings :
                  ParseSeconds(d).ok =>
                      parseOut.meta =
                          [parseFFprobeJSONOutput(
                               WithDuration(probeRun.output, d)).meta
                              EXCEPT !.Duration = 0]
        /\ ~ParseInt(probeRun.output.Format.Size).ok =>
              \A z \in SizeStrings :
                  ParseInt(z).ok =>
                      parseOut.meta =
                          [parseFFprobeJSONOutput(
                               WithSize(probeRun.output, z)).meta
                              EXCEPT !.Size = 0]
        /\ ~ParseInt(probeRun.output.Format.BitRate).ok =>
              \A b \in BitRateStrings :
                  ParseInt(b).ok =>
                      parseOut.meta =
                          [parseFFprobeJSONOutput(
                               WithBitRate(probeRun.output, b)).meta
                              EXCEPT !.BitRate = 0]

\* a document with a duration that is not numeric, a numeric size and
\* tracks has been parsed
C17_Witness ==
    /\ parseOut # NotCalled
    /\ probeRun.output # Garbage
    /\ probeRun.output.Format.Duration = <<"N", "/", "A">>
    /\ parseOut.meta.Duration = 0
    /\ parseOut.meta.Size = 1024
    /\ Len(parseOut.meta.VideoTracks) = 2
    /\ Len(parseOut.meta.AudioTracks) = 1

\* ------------------------------------------------------------------------
\* Properties of the scheduler
\* ------------------------------------------------------------------------

RunIds == 1..Len(runs)

\* the firing r has fired and taskWrapper.Execute has not returned
InProgress(r) == runs[r].pc \in {"mark", "persist", "executing", "save"}

\* this step is the second UpdateTask of the firing r, and it succeeded
PostRunWrite(r) ==
    /\ r \in RunIds
    /\ runs[r].pc = "save"
    /\ runs'[r].pc \in {"done", "failed"}
    /\ runs'[r].saved

\* this step ends the firing r with an error
FailsNow(r) ==
    /\ r \in RunIds
    /\ InProgress(r)
    /\ runs'[r].pc = "failed"

IntervalOf(t) == ParseDuration(memTask[t].Interval).d

\* C3: for every firing whose executor returned (and whose post-run write
\* succeeded), the status persisted after the run is idle exactly when the
\* executor returned no error and failed exactly when it returned an error.
C3_OutcomeMapping ==
    [][\A r \in RunIds :
          PostRunWrite(r) =>
              taskRow'[runs[r].task].Status = StatusOf(runs[r].err)]_vars

\* C4: after every firing whose executor returned (and whose post-run write
\* succeeded), the persisted nextRun is the completion time plus the interval
\* of the task, and so at least lastRun plus the interval.
C4_NextRunAdvanced ==
    [][\A r \in RunIds :
          PostRunWrite(r) =>
              /\ taskRow'[runs[r].task].NextRun =
                     runs[r].completedAt + IntervalOf(runs[r].task)
              /\ taskRow'[runs[r].task].NextRun >=
                     taskRow'[runs[r].task].LastRun
                         + IntervalOf(runs[r].task)]_vars

\* C5: whenever the executor of a firing has been invoked, the status that
\* firing persisted before the invocation is running.
C5_RunningBeforeExecute ==
    \A r \in RunIds :
        runs[r].pc = "executing" => runs[r].invokedWith = "running"

\* C6: at no time are two firings of the same task in progress.
C6_NoOverlap ==
    \A r1, r2 \in RunIds :
        (r1 # r2 /\ runs[r1].task = runs[r2].task)
            => ~(InProgress(r1) /\ InProgress(r2))

\* C7: a firing that ends with an error (of the executor or of a write)
\* neither stops the scheduler nor unschedules a task: every scheduled task
\* stays scheduled with its next firing at most one interval away.
C7_SchedulerSurvives ==
    [][(\E r \in RunIds : FailsNow(r)) =>
          /\ mainPc' = mainPc
          /\ scheduled' = scheduled
          /\ \A t \in scheduled' : nextFire'[t] <= now' + IntervalOf(t)]_vars

\* a task has fired again after a firing of it failed
C7_Witness ==
    \E r \in RunIds :
        /\ runs[r].task \in runs[r].afterFailure
        /\ runs[r].pc = "done"

\* C29: whenever no firing of a task is in progress, the persisted status of
\* the task is idle or failed, never running.
C29_NoTaskLeftRunning ==
    \A t \in TaskIds :
        (\A r \in RunIds : runs[r].task = t => ~InProgress(r)) =>
            taskRow[t].Status \in {"idle", "failed"}

\* C30: a step of a firing leaves the enabled flag, the interval and the type
\* of every persisted task row as they are in the store.
C30_FiringWritesRunStateOnly ==
    [][ runs' # runs =>
            \A t \in TaskIds :
                /\ taskRow'[t].Enabled = taskRow[t].Enabled
                /\ taskRow'[t].Interval = taskRow[t].Interval
                /\ taskRow'[t].Type = taskRow[t].Type ]_vars

====
